---- MODULE Spec2Model ----
(***************************************************************************)
(* The generation-to-render pipeline of obsidian-llm-graphviz:             *)
(* Processors.imageProcessor, callOpenAI, renderDotLocally, convertToImage *)
(* and writeDotFile (src/src/processors.ts, lines 305-595), with the        *)
(* settings they read (src/unnamed/part_000), and loadSettings and         *)
(* fetchModels of the plugin (src/src/main.ts).                            *)
(*                                                                         *)
(* A JavaScript string is a sequence of atoms: a block's text is a         *)
(* sequence of one-character atoms, a message is a sequence of the         *)
(* literal pieces and the interpolated values of its template.  One        *)
(* action is one macrotask: an event handler or callback together with     *)
(* the promise continuations (microtasks) it releases.                     *)
(***************************************************************************)
EXTENDS Integers, Sequences, FiniteSets, TLC

\* Longest block text, in characters.
MaxLen == 4
\* Most keys a response object carries.
MaxKeys == 2
\* Most 'data' events per stream of one engine process.
MaxChunks == 2
\* Most entries of the model catalog the service returns.
MaxCatalog == 2

Alphabet == {"a", "b", " ", "{"}
Whitespace == {" "}

SeqsUpTo(S, n) == UNION {[1..k -> S] : k \in 0..n}

\* Every block text of at most MaxLen characters.
AllSources == SeqsUpTo(Alphabet, MaxLen)

\* Two block texts: style tokens before a brace, and no brace at all.
SampleSources == { <<"a", " ", "b", "{">>, <<"a", " ", "b">> }

Range(s) == {s[k] : k \in 1..Len(s)}

(***************************************************************************)
(* String functions of the JavaScript runtime, as imageProcessor uses them *)
(***************************************************************************)

\* s.split("{", 1)[0]: the text before the first brace, all of s without one.
SplitBrace(s) ==
  IF \E k \in 1..Len(s) : s[k] = "{"
    THEN SubSeq(s, 1, (CHOOSE k \in 1..Len(s) :
                         s[k] = "{" /\ \A j \in 1..(k-1) : s[j] # "{") - 1)
    ELSE s

\* s.trim()
Trim(s) ==
  LET keep == {k \in 1..Len(s) : s[k] \notin Whitespace}
  IN IF keep = {} THEN <<>>
     ELSE SubSeq(s, CHOOSE a \in keep : \A k \in keep : a <= k,
                    CHOOSE b \in keep : \A k \in keep : b >= k)

RECURSIVE SplitWsFrom(_, _, _, _)
SplitWsFrom(s, k, cur, acc) ==
  IF k > Len(s) THEN Append(acc, cur)
  ELSE IF s[k] \in Whitespace
    THEN LET rest == {j \in (k+1)..Len(s) : s[j] \notin Whitespace}
             nxt == IF rest = {} THEN Len(s) + 1
                    ELSE CHOOSE j \in rest : \A m \in rest : j <= m
         IN SplitWsFrom(s, nxt, <<>>, Append(acc, cur))
    ELSE SplitWsFrom(s, k + 1, Append(cur, s[k]), acc)

\* s.split(/\s+/): "" gives [""], a run of whitespace separates once.
SplitWs(s) == SplitWsFrom(s, 1, <<>>, <<>>)

RECURSIVE Join(_, _)
\* words.join(sep)
Join(words, sep) ==
  IF words = <<>> THEN <<>>
  ELSE IF Len(words) = 1 THEN words[1]
  ELSE words[1] \o sep \o Join(Tail(words), sep)

RECURSIVE Dedup(_, _)
Dedup(ws, acc) ==
  IF ws = <<>> THEN acc
  ELSE Dedup(Tail(ws),
             IF Head(ws) = <<>> \/ Head(ws) \in Range(acc) THEN acc
             ELSE Append(acc, Head(ws)))

\* element.classList of a class attribute: its whitespace-separated tokens,
\* empty ones dropped, each once, in order of first appearance.
ClassList(attr) == Dedup(SplitWs(attr), <<>>)

\* const stringBeforeBrace = source.split("{", 1)[0]?.trim() || "";
stringBeforeBrace(source) == Trim(SplitBrace(source))

\* const wordsBeforeBrace = stringBeforeBrace.split(/\s+/);
wordsBeforeBrace(source) == SplitWs(stringBeforeBrace(source))

IsInfix(sub, s) ==
  \E k \in 0..(Len(s) - Len(sub)) : SubSeq(s, k + 1, k + Len(sub)) = sub


(***************************************************************************)
(* JavaScript values of the response object                                *)
(***************************************************************************)

\* undefined, and a string value.
Undefined == [def |-> FALSE, str |-> <<>>]
Str(s) == [def |-> TRUE, str |-> s]

\* ToBoolean: undefined and "" are falsy.
Truthy(v) == v.def /\ v.str # <<>>

\* a || b
Or(a, b) == IF Truthy(a) THEN a ELSE b

\* An Error object with a message, and a bare string used as a rejection.
Err(msg) == [isError |-> TRUE, message |-> msg]
Rejection(msg) == [isError |-> FALSE, message |-> msg]

\* `${err}` of an Error object.
ErrToString(e) == IF e.isError THEN <<"Error: ">> \o e.message ELSE e.message

(***************************************************************************)
(* Settings (src/unnamed/part_000) and their load (src/src/main.ts)        *)
(***************************************************************************)

DEFAULT_SETTINGS ==
  [processingMode |-> "dot", dotPath |-> "dot", localDotOutputFormat |-> "png",
   apiKey |-> "", model |-> "gpt-4o-mini"]

\* A key the stored data does not hold.
NotStored == "<not stored>"

\* What loadData() may return: each key stored or not, the mode possibly one
\* of an older version or none, the model possibly one typed by hand.
StoredData ==
  [processingMode : {NotStored, "dot", "svg", "local-dot", ""},
   dotPath : {NotStored},
   localDotOutputFormat : {NotStored, "png", "svg"},
   apiKey : {NotStored, "sk-test"},
   model : {NotStored, "o1"}]

\* A fresh installation, and the data file of a configured one.
SampleStored ==
  { [processingMode |-> NotStored, dotPath |-> NotStored,
     localDotOutputFormat |-> NotStored, apiKey |-> NotStored, model |-> NotStored],
    [processingMode |-> "svg", dotPath |-> "dot",
     localDotOutputFormat |-> "svg", apiKey |-> "sk-test", model |-> NotStored] }

\* Object.assign({}, DEFAULT_SETTINGS, loadedData)
Assign(defaults, loaded) ==
  [k \in DOMAIN defaults |->
     IF k \in DOMAIN loaded /\ loaded[k] # NotStored THEN loaded[k] ELSE defaults[k]]

validModes == {"dot", "svg"}

\* A load that takes the stored mode as it is.
loadSettingsUnchecked(loadedData) == Assign(DEFAULT_SETTINGS, loadedData)

\* GraphvizPlugin.loadSettings: this.settings when it returns.
loadSettings(loadedData) ==
  LET merged == Assign(DEFAULT_SETTINGS, loadedData)
  IN IF merged.processingMode \notin validModes
       THEN [merged EXCEPT !.processingMode = DEFAULT_SETTINGS.processingMode]
       ELSE merged

\* GraphvizPlugin.loadSettings: console.warn(`Invalid processingMode loaded:
\* '${this.settings.processingMode}'. ...`), the modes warned about so far.
WarnedAfterLoad(warned, loadedData) ==
  IF Assign(DEFAULT_SETTINGS, loadedData).processingMode \notin validModes
    THEN warned \cup {Assign(DEFAULT_SETTINGS, loadedData).processingMode}
    ELSE warned

\* GraphvizPlugin.loadSettings: the data file when it returns, saved again
\* only when the mode was replaced.
StoredAfterLoad(loadedData) ==
  IF Assign(DEFAULT_SETTINGS, loadedData).processingMode \notin validModes
    THEN loadSettings(loadedData)
    ELSE loadedData

(***************************************************************************)
(* The generative service's replies                                        *)
(***************************************************************************)

Keys == {"dot_code", "dot", "svg_code", "svg", "error_message", "sometext"}

\* Object.keys lists keys in the order the reply holds them; replies hold
\* them in this order.
KeyOrder == <<"dot_code", "dot", "svg_code", "svg", "error_message", "sometext">>

\* The non-empty text a reply carries under each key.
TextOf(k) ==
  CASE k = "dot_code" -> <<"digraph{a->b}">>
    [] k = "dot" -> <<"graph{legacy}">>
    [] k = "svg_code" -> <<"<svg>", "circle", "</svg>">>
    [] k = "svg" -> <<"<svg>", "legacy", "</svg>">>
    [] k = "error_message" -> <<"cannot draw this">>
    [] OTHER -> <<"a note">>

Field(k, shape) ==
  CASE shape = "absent" -> Undefined
    [] shape = "empty" -> Str(<<>>)
    [] OTHER -> Str(TextOf(k))

\* Every response object of at most MaxKeys keys, each key's value empty or not.
Bodies ==
  { [k \in Keys |-> Field(k, sh[k])] :
      sh \in { f \in [Keys -> {"absent", "empty", "text"}] :
                 Cardinality({k \in Keys : f[k] # "absent"}) <= MaxKeys } }

EmptyBody == [k \in Keys |-> Undefined]

\* What the fetch of callOpenAI settles with: a network failure, a non-success
\* status (its text readable or not), a body that is no JSON, an envelope
\* whose first choice is null, an envelope without content, content that is
\* no JSON, content "null", or content that is a JSON object.
ResponseKinds ==
  {"network", "status", "statusNoText", "badEnvelope", "nullChoice",
   "noContent", "badJson", "null", "object"}

Responses ==
  { [kind |-> k, body |-> EmptyBody] : k \in ResponseKinds \ {"object"} }
    \cup { [kind |-> "object", body |-> b] : b \in Bodies }

\* A few replies: primary code key of each format, error only, no key at all.
SampleResponses ==
  { [kind |-> "object", body |-> [EmptyBody EXCEPT !["dot_code"] = Str(TextOf("dot_code"))]],
    [kind |-> "object", body |-> [EmptyBody EXCEPT !["svg_code"] = Str(TextOf("svg_code"))]],
    [kind |-> "object", body |-> [EmptyBody EXCEPT !["error_message"] = Str(TextOf("error_message"))]],
    [kind |-> "object", body |-> EmptyBody] }

NoResponse == [kind |-> "none", body |-> EmptyBody]

\* Object.keys(responseBody)
ObjectKeys(body) == SelectSeq(KeyOrder, LAMBDA k : body[k].def)

Quoted(k) == <<"'", k, "'">>

\* promptContent of callOpenAI
promptContent(targetFormat, source) ==
  IF targetFormat = "svg"
    THEN <<"Please generate an SVG image based on the following description. Respond ONLY in the specified JSON format. The SVG code must be self-contained and renderable. Description: ">> \o source
    ELSE <<"Please generate Graphviz DOT language code based on the following description. Respond ONLY in the specified JSON format. The DOT code must be valid and renderable by Graphviz. Description: ">> \o source

requiredCodeFieldWithSuffix(targetFormat) ==
  IF targetFormat = "svg" THEN "svg_code" ELSE "dot_code"

requiredCodeFieldWithoutSuffix(targetFormat) == targetFormat

checkedKeys(targetFormat) ==
  Quoted(requiredCodeFieldWithSuffix(targetFormat)) \o <<", ">>
    \o Quoted(requiredCodeFieldWithoutSuffix(targetFormat)) \o <<", ">>
    \o Quoted("error_message")

receivedKeys(body) ==
  LET joined == Join([k \in 1..Len(ObjectKeys(body)) |-> <<ObjectKeys(body)[k]>>], <<", ">>)
  IN IF joined = <<>> THEN <<"none">> ELSE joined

MissingFieldsError(targetFormat, body) ==
  Err(<<"LLM response is missing any of the expected fields (">>
        \o checkedKeys(targetFormat) \o <<"). Received keys: [">>
        \o receivedKeys(body) \o <<"]">>)

\* A check of the keys' presence instead of their values.
FieldsPresent(targetFormat, body) ==
  \/ body[requiredCodeFieldWithSuffix(targetFormat)].def
  \/ body[requiredCodeFieldWithoutSuffix(targetFormat)].def
  \/ body["error_message"].def

\* The field-presence check of callOpenAI.
\* A callOpenAI that returns every parsed object.
FieldsUnchecked(targetFormat, body) == TRUE

FieldsAccepted(targetFormat, body) ==
  \/ Truthy(body[requiredCodeFieldWithSuffix(targetFormat)])
  \/ Truthy(body[requiredCodeFieldWithoutSuffix(targetFormat)])
  \/ Truthy(body["error_message"])

ApiKeyError == Err(<<"OpenAI API Key is not configured in settings.">>)

\* What callOpenAI's try block ends with: the steps it took on the response
\* ("text": response.text(), "json": response.json(), "envelope": the check
\* of choices[0].message.content, "parse": JSON.parse of the content,
\* "validate": the check of the fields), and its return value or its error.
Returned(steps, body) ==
  [ok |-> TRUE, steps |-> steps, body |-> body, error |-> Err(<<>>)]
Thrown(steps, e) ==
  [ok |-> FALSE, steps |-> steps, body |-> EmptyBody, error |-> e]

\* A step that lets the try block go on.
Passed == Returned(<<>>, EmptyBody)

\* callOpenAI's catch block: log and rethrow.
callOpenAICatch(error) == error

\* response.status, response.statusText and the text of a response that is
\* not ok.
ResponseStatus(resp) == "401"
ResponseStatusText(resp) == "Unauthorized"
ResponseText(resp) == "{\"error\": \"invalid_api_key\"}"

\* A try block that goes on to response.json() whatever the status is.
StatusCheckSkipped(resp) == Passed

\* if (!response.ok) { const errorText = await response.text(); throw ... }
StatusCheck(resp) ==
  CASE resp.kind = "status" ->
         Thrown(<<"text">>,
                Err(<<"OpenAI API request failed: ", ResponseStatus(resp), " ",
                      ResponseStatusText(resp), " - ", ResponseText(resp)>>))
    [] resp.kind = "statusNoText" ->
         Thrown(<<"text">>, Err(<<"network error">>))
    [] OTHER -> Passed

\* await response.json() and the check of choices[0].message.content; the
\* body of a response that is not ok holds no choices.
EnvelopeCheck(resp) ==
  CASE resp.kind = "badEnvelope" ->
         Thrown(<<"json">>, Err(<<"Unexpected token < in JSON at position 0">>))
    [] resp.kind = "nullChoice" ->
         Thrown(<<"json", "envelope">>,
                Err(<<"Cannot read properties of null (reading 'message')">>))
    [] resp.kind \in {"noContent", "status", "statusNoText"} ->
         Thrown(<<"json", "envelope">>,
                Err(<<"Invalid response structure from OpenAI API.">>))
    [] OTHER -> Passed

\* The content that is no JSON.
RawContent(resp) == "not json"

\* A parse that takes content it cannot read for an empty object.
ParseCheckLenient(resp) == Passed

\* try { parsedResponseBody = JSON.parse(rawContent); } catch { throw ... }
ParseCheck(resp) ==
  IF resp.kind = "badJson"
    THEN Thrown(<<"json", "envelope", "parse">>,
                Err(<<"Failed to parse LLM response JSON: ",
                      "SyntaxError: Unexpected token", ". Response: ",
                      RawContent(resp)>>))
    ELSE Passed

\* callOpenAI's try block from the settled fetch on.
callOpenAIAfterFetch(targetFormat, resp) ==
  IF resp.kind = "network" THEN Thrown(<<>>, Err(<<"Failed to fetch">>))
  ELSE IF ~StatusCheck(resp).ok THEN StatusCheck(resp)
  ELSE IF ~EnvelopeCheck(resp).ok THEN EnvelopeCheck(resp)
  ELSE IF ~ParseCheck(resp).ok THEN ParseCheck(resp)
  ELSE IF resp.kind = "null"
    THEN Thrown(<<"json", "envelope", "parse">>,
                Err(<<"Cannot read properties of null (reading 'error_message')">>))
  ELSE IF FieldsAccepted(targetFormat, resp.body)
    THEN Returned(<<"json", "envelope", "parse", "validate">>, resp.body)
    ELSE Thrown(<<"json", "envelope", "parse", "validate">>,
                MissingFieldsError(targetFormat, resp.body))


(***************************************************************************)
(* Nodes attached to the container                                         *)
(***************************************************************************)

imageMimeType(format) ==
  CASE format = "png" -> "image/png"
    [] format = "svg" -> "image/svg+xml"
    [] OTHER -> "application/octet-stream"

\* div.querySelector('svg') finds an element.
HasSvgElement(markup) == "<svg>" \in Range(markup)

\* errMessage instanceof Error ? errMessage.message : String(errMessage)
ErrorText(errMessage) ==
  IF errMessage.isError THEN errMessage.message ELSE errMessage.message

\* The pre/code node of imageProcessor's catch block.
ErrorNode(errMessage) ==
  [tag |-> "pre", class |-> <<"graphviz-error">>, text |-> ErrorText(errMessage),
   html |-> <<>>, src |-> <<>>, mime |-> "", svgClass |-> FALSE]

\* The div of the svg mode and of renderDotLocally's svg branch.
SvgContainer(markup, cssClasses) ==
  [tag |-> "div",
   class |-> <<"graphviz-svg-container", " ">> \o Join(cssClasses, <<" ">>),
   text |-> <<>>, html |-> markup, src |-> <<>>, mime |-> "",
   svgClass |-> HasSvgElement(markup)]

\* The img of renderDotLocally, its src a blob of the engine's bytes.
ImgNode(imageData, mimeType, cssClasses) ==
  [tag |-> "img", class |-> <<"graphviz", " ">> \o Join(cssClasses, <<" ">>),
   text |-> <<>>, html |-> <<>>, src |-> imageData, mime |-> mimeType,
   svgClass |-> FALSE]

\* A renderDotLocally that wraps every format in an img.
renderDotLocallyAlwaysImg(imageData, outputFormat, cssClasses) ==
  ImgNode(imageData, imageMimeType(outputFormat), cssClasses)

\* renderDotLocally after convertToImage has resolved: the node appended.
renderDotLocallyNode(imageData, outputFormat, cssClasses) ==
  IF outputFormat = "svg"
    THEN SvgContainer(imageData, cssClasses)
    ELSE ImgNode(imageData, imageMimeType(outputFormat), cssClasses)

(***************************************************************************)
(* State                                                                   *)
(***************************************************************************)

\* The blocks the host hands to imageProcessor.
Invs == {1}

\* The names tmp.file may allocate.
Paths == {"/tmp/tmp-1.tmp"}

NoProc ==
  [state |-> "none", cmdPath |-> "", parameters |-> <<>>, input |-> <<>>,
   exitCode |-> ""]

VARIABLES
  settings,   \* plugin.settings
  stored,     \* the plugin's data file, as loadData() reads it
  console,    \* the modes loadSettings has warned about
  fm,         \* the call of fetchModels
  files,      \* the file system: each path's [exists, content]
  openFds,    \* the paths whose descriptor is open
  inv         \* per block: the invocation of imageProcessor on it

vars == <<settings, stored, console, fm, files, openFds, inv>>

NoFile == [exists |-> FALSE, content |-> <<>>]

\* No call of fetchModels under way.
IdleFetch ==
  [pc |-> "idle", apiKey |-> "", requests |-> <<>>, response |-> "none",
   model |-> "", threw |-> FALSE, result |-> <<>>]

\* GraphvizPlugin.saveSettings: saveData(this.settings)
saveSettings == stored' = settings'

IdleInv ==
  [pc |-> "idle",            \* where the invocation is suspended
   source |-> <<>>,          \* the block's text
   processingMode |-> "",    \* const processingMode
   apiKey |-> "",            \* const apiKey of callOpenAI
   requests |-> <<>>,        \* the fetches issued
   response |-> NoResponse,  \* what the fetch settled with
   steps |-> <<>>,           \* the steps callOpenAI took on the response
   warned |-> <<>>,          \* the messages callOpenAI passed to console.warn
   dotSource |-> <<>>,       \* the code handed to renderDotLocally
   allocs |-> <<>>,          \* the tmp.file calls and their paths ("" until named)
   tmpPath |-> "",           \* tmpPath of the tmp.file callback
   err |-> "",               \* the call whose callback received an err
   spawns |-> <<>>,          \* the processes spawned
   proc |-> NoProc,          \* dotProcess
   outData |-> <<>>,         \* outData of writeDotFile
   errData |-> <<>>,         \* errData of writeDotFile
   wdf |-> "none",           \* the promise of writeDotFile
   cti |-> "none",           \* the promise of convertToImage
   imageData |-> <<>>,       \* const imageData of renderDotLocally
   outputFormat |-> "",      \* const outputFormat of renderDotLocally
   raised |-> <<>>,          \* the errors raised, where they arose
   caught |-> <<>>,          \* the errors that reached imageProcessor's catch
   uncaught |-> <<>>,        \* the errors thrown out of a callback
   el |-> <<>>,              \* the container's children
   ret |-> "none"]           \* the promise imageProcessor returned

\* The state once onload has returned: the settings loaded from one of the
\* data files in Data, no call of fetchModels, the blocks of Blocks not yet
\* processed, none of the scratch names of Names in use.
InitWith(Data, Blocks, Names) ==
  /\ \E d \in Data :
       /\ settings = loadSettings(d)
       /\ stored = StoredAfterLoad(d)
       /\ console = WarnedAfterLoad({}, d)
  /\ fm = IdleFetch
  /\ files = [p \in Names |-> NoFile]
  /\ openFds = {}
  /\ inv = [i \in Blocks |-> IdleInv]

Init == InitWith(SampleStored, Invs, Paths)

(***************************************************************************)
(* imageProcessor                                                          *)
(***************************************************************************)

\* A catch block that logs the error and shows nothing.
CatchSilently(r, errMessage) ==
  [r EXCEPT !.pc = "done", !.caught = Append(@, errMessage), !.ret = "resolved"]

\* imageProcessor's catch block: one error node, and the function returns.
Catch(r, errMessage) ==
  [r EXCEPT !.pc = "done",
            !.caught = Append(@, errMessage),
            !.el = Append(@, ErrorNode(errMessage)),
            !.ret = "resolved"]

\* An error arising inside the try block.
Raise(r, e) == Catch([r EXCEPT !.raised = Append(@, e)], e)

\* The generic message whatever the response says.
NoCodeErrorGeneric(targetFormat, body) ==
  Err(IF targetFormat = "svg"
        THEN <<"LLM failed to generate SVG code (checked keys: svg_code, svg).">>
        ELSE <<"LLM failed to generate DOT code (checked keys: dot_code, dot).">>)

\* new Error(responseBody.error_message || 'LLM failed to generate ...')
NoCodeError(targetFormat, body) ==
  Err(Or(body["error_message"],
         Str(IF targetFormat = "svg"
               THEN <<"LLM failed to generate SVG code (checked keys: svg_code, svg).">>
               ELSE <<"LLM failed to generate DOT code (checked keys: dot_code, dot).">>)).str)

\* The primary key alone.
CodeOfPrimaryKey(targetFormat, body) ==
  body[requiredCodeFieldWithSuffix(targetFormat)]

\* The legacy key first, the primary key otherwise.
CodeOfLegacyFirst(targetFormat, body) ==
  Or(body[requiredCodeFieldWithoutSuffix(targetFormat)],
     body[requiredCodeFieldWithSuffix(targetFormat)])

\* The code of the response: primary key, else legacy key.
CodeOf(targetFormat, body) ==
  Or(body[requiredCodeFieldWithSuffix(targetFormat)],
     body[requiredCodeFieldWithoutSuffix(targetFormat)])

\* The request callOpenAI sends.
Request(targetFormat, source, apiKey) ==
  [targetFormat |-> targetFormat, model |-> settings.model,
   authorization |-> <<"Bearer ", apiKey>>,
   content |-> promptContent(targetFormat, source)]

\* callOpenAI sending its request whatever the credential is.
callOpenAIStartUnchecked(r, source, targetFormat) ==
  [r EXCEPT !.pc = "fetch", !.apiKey = settings.apiKey,
            !.requests = Append(@, Request(targetFormat, source, settings.apiKey))]

\* callOpenAI up to its fetch: the credential check, then the request.
callOpenAIStart(r, source, targetFormat) ==
  LET apiKey == settings.apiKey
      r1 == [r EXCEPT !.apiKey = apiKey]
  IN IF apiKey = ""
       THEN Raise(r1, ApiKeyError)
       ELSE [r1 EXCEPT !.pc = "fetch",
                       !.requests = Append(@, Request(targetFormat, source, apiKey))]

\* A dispatcher whose last branch is the dot branch.
imageProcessorStartElseDot(r, source) ==
  LET r1 == [r EXCEPT !.source = source, !.ret = "pending",
                      !.processingMode = settings.processingMode]
  IN callOpenAIStart(r1, source, IF r1.processingMode = "svg" THEN "svg" ELSE "dot")

\* The host calls imageProcessor on a block: up to the first suspension.
imageProcessorStart(r, source) ==
  LET r1 == [r EXCEPT !.source = source, !.ret = "pending",
                      !.processingMode = settings.processingMode]
  IN IF r1.processingMode \in {"svg", "dot"}
       THEN callOpenAIStart(r1, source, r1.processingMode)
       ELSE Raise(r1, Err(<<"Unknown processing mode: ", r1.processingMode>>))

Invoke(i, Sources) ==
  /\ inv[i].pc = "idle"
  /\ \E source \in Sources :
       inv' = [inv EXCEPT ![i] = imageProcessorStart(@, source)]
  /\ UNCHANGED <<settings, stored, console, fm, files, openFds>>

\* A dispatcher that hands the code of either mode to renderDotLocally.
DispatchAlwaysLocal(r, body) ==
  LET code == CodeOf(r.processingMode, body)
  IN IF ~Truthy(code)
       THEN Raise(r, NoCodeError(r.processingMode, body))
       ELSE [r EXCEPT !.pc = "tmp", !.dotSource = code.str, !.cti = "pending",
                      !.allocs = Append(@, "")]

\* A dispatcher that reports the response's error message before it looks
\* for code.
DispatchErrorFirst(r, body) ==
  IF Truthy(body["error_message"])
    THEN Raise(r, Err(body["error_message"].str))
    ELSE LET code == CodeOf(r.processingMode, body)
         IN IF ~Truthy(code)
              THEN Raise(r, NoCodeError(r.processingMode, body))
            ELSE IF r.processingMode = "svg"
              THEN [r EXCEPT !.pc = "done", !.ret = "resolved",
                             !.el = Append(@, SvgContainer(code.str, wordsBeforeBrace(r.source)))]
              ELSE [r EXCEPT !.pc = "tmp", !.dotSource = code.str, !.cti = "pending",
                             !.allocs = Append(@, "")]

\* imageProcessor once callOpenAI has returned responseBody.
Dispatch(r, body) ==
  LET code == CodeOf(r.processingMode, body)
  IN IF ~Truthy(code)
       THEN Raise(r, NoCodeError(r.processingMode, body))
     ELSE IF r.processingMode = "svg"
       THEN [r EXCEPT !.pc = "done", !.ret = "resolved",
                      !.el = Append(@, SvgContainer(code.str, wordsBeforeBrace(r.source)))]
       \* renderDotLocally -> convertToImage -> tmp.file
       ELSE [r EXCEPT !.pc = "tmp", !.dotSource = code.str, !.cti = "pending",
                      !.allocs = Append(@, "")]

\* if (responseBody.error_message) console.warn(`LLM reported an issue: ...`),
\* reached once the content is parsed to an object.
LLMWarnings(steps, body) ==
  IF "validate" \in Range(steps) /\ Truthy(body["error_message"])
    THEN << <<"LLM reported an issue: ">> \o body["error_message"].str >>
    ELSE <<>>

\* A callOpenAI that sends its request once more when the first attempt fails.
AfterFetchRetry(r, resp) ==
  LET out == callOpenAIAfterFetch(r.processingMode, resp)
      r1 == [r EXCEPT !.response = resp, !.steps = out.steps,
                      !.warned = LLMWarnings(out.steps, resp.body)]
  IN IF out.ok THEN Dispatch(r1, out.body)
     ELSE IF Len(r.requests) < 2
       THEN [r EXCEPT !.raised = Append(@, out.error),
                      !.requests = Append(@, r.requests[1])]
     ELSE Catch([r1 EXCEPT !.raised = Append(@, out.error)], callOpenAICatch(out.error))

\* The fetch settles and callOpenAI runs to its end; imageProcessor resumes.
AfterFetch(r, resp) ==
  LET out == callOpenAIAfterFetch(r.processingMode, resp)
      r1 == [r EXCEPT !.response = resp, !.steps = out.steps,
                      !.warned = LLMWarnings(out.steps, resp.body)]
  IN IF out.ok THEN Dispatch(r1, out.body)
     ELSE Catch([r1 EXCEPT !.raised = Append(@, out.error)], callOpenAICatch(out.error))

FetchSettles(i, Resps) ==
  /\ inv[i].pc = "fetch"
  /\ \E resp \in Resps :
       inv' = [inv EXCEPT ![i] = AfterFetch(@, resp)]
  /\ UNCHANGED <<settings, stored, console, fm, files, openFds>>


(***************************************************************************)
(* convertToImage: the scratch file                                        *)
(***************************************************************************)

\* A cleanup that is never run (cleanupCallback left unused).
FilesLeftBehind(path) == files

\* tmp's removeCallback: the file is removed and its descriptor closed.
FilesAfterCleanup(path) == [files EXCEPT ![path] = NoFile]
FdsAfterCleanup(path) == openFds \ {path}

AllocError == Err(<<"ENOSPC: no space left on device, open">>)
WriteError == Err(<<"EIO: i/o error, write">>)
CloseError == Err(<<"EIO: i/o error, close">>)
NotAFunction == Err(<<"cleanupCallback is not a function">>)

\* The .catch of convertToImage forwards the rejection of writeDotFile.
convertToImageCatch(message) == message

\* A name allocator that does not look at the files that exist.
AnyName(fs) == DOMAIN fs

\* tmp.file opens the name it draws with O_CREAT | O_EXCL and draws again
\* when it exists: the names it can return.
FreeNames(fs) == {p \in DOMAIN fs : ~fs[p].exists}

\* tmp.file's callback with a file: fs.write is issued.
TmpFileCreated(i) ==
  /\ inv[i].pc = "tmp"
  /\ \E path \in FreeNames(files) :
       /\ TRUE
       /\ files' = [files EXCEPT ![path] = [exists |-> TRUE, content |-> <<>>]]
       /\ openFds' = openFds \cup {path}
       /\ inv' = [inv EXCEPT ![i] =
                    [@ EXCEPT !.pc = "write", !.tmpPath = path,
                              !.allocs = [@ EXCEPT ![Len(@)] = path]]]
  /\ UNCHANGED <<settings, stored, console, fm>>

\* tmp.file's callback with an error: cleanupCallback() is called before the
\* rejection.  tmp passes the error alone, so the fourth argument is whatever
\* the library leaves there: a function, or undefined, and calling undefined
\* throws out of the callback with the promise left pending.
TmpFileFailed(i) ==
  /\ inv[i].pc = "tmp"
  /\ \E callable \in BOOLEAN :
       inv' = [inv EXCEPT ![i] =
                 IF callable
                   THEN Raise([@ EXCEPT !.cti = "rejected", !.err = "tmp.file"],
                              AllocError)
                   ELSE [@ EXCEPT !.pc = "hung", !.err = "tmp.file",
                                  !.raised = Append(@, AllocError),
                                  !.uncaught = Append(@, NotAFunction)]]
  /\ UNCHANGED <<settings, stored, console, fm, files, openFds>>

\* fs.write's callback without an error: fs.close is issued.
WriteDone(i) ==
  /\ inv[i].pc = "write"
  /\ files' = [files EXCEPT ![inv[i].tmpPath] =
                 [exists |-> TRUE, content |-> inv[i].dotSource]]
  /\ inv' = [inv EXCEPT ![i] = [@ EXCEPT !.pc = "close"]]
  /\ UNCHANGED <<settings, stored, console, fm, openFds>>

\* fs.write's callback with an error: fs.close is issued, the rest follows in
\* its callback.
WriteFailed(i) ==
  /\ inv[i].pc = "write"
  /\ inv' = [inv EXCEPT ![i] = [@ EXCEPT !.pc = "closeAfterWriteError",
                                         !.err = "fs.write"]]
  /\ UNCHANGED <<settings, stored, console, fm, files, openFds>>

\* The callback of the fs.close that follows a failed write.
CloseAfterWriteError(i) ==
  /\ inv[i].pc = "closeAfterWriteError"
  /\ files' = FilesAfterCleanup(inv[i].tmpPath)
  /\ openFds' = FdsAfterCleanup(inv[i].tmpPath)
  /\ inv' = [inv EXCEPT ![i] =
               Raise([@ EXCEPT !.cti = "rejected"],
                     Rejection(<<"write to ", @.tmpPath, " error ">>
                                 \o ErrToString(WriteError)))]
  /\ UNCHANGED <<settings, stored, console, fm>>

\* fs.close's callback with an error.
CloseFailed(i) ==
  /\ inv[i].pc = "close"
  /\ files' = FilesAfterCleanup(inv[i].tmpPath)
  /\ openFds' = FdsAfterCleanup(inv[i].tmpPath)
  /\ inv' = [inv EXCEPT ![i] =
               Raise([@ EXCEPT !.cti = "rejected", !.err = "fs.close"],
                     Rejection(<<"close ", @.tmpPath, " error ">>
                                 \o ErrToString(CloseError)))]
  /\ UNCHANGED <<settings, stored, console, fm>>

(***************************************************************************)
(* writeDotFile: the engine process                                        *)
(***************************************************************************)

StdoutChunks == {"<svg>", "</svg>"}
StderrChunks == {"syntax error"}

\* The exit codes an 'exit' event carries; null when a signal ended the process.
ExitCodes == {"0", "1", "null"}

\* A parameter list without the source file: the engine would read stdin.
parametersWithoutSource(outputFormat, sourceFile) ==
  << <<"-T", outputFormat>>, <<"-Gbgcolor=transparent">>,
     <<"-Gstylesheet=obs-gviz.css">> >>

\* const parameters = [ `-T${outputFormat}`, ..., sourceFile ]
parameters(outputFormat, sourceFile) ==
  << <<"-T", outputFormat>>, <<"-Gbgcolor=transparent">>,
     <<"-Gstylesheet=obs-gviz.css">>, <<sourceFile>> >>

\* `${cmdPath} ${parameters.join(' ')}`
CommandLine(proc) == <<proc.cmdPath, " ">> \o Join(proc.parameters, <<" ">>)

\* A rejection that drops what the engine wrote to stderr.
ExitMessageWithoutStderr(proc, code, errData) ==
  Rejection(<<"\"">> \o CommandLine(proc) \o <<"\" failed, error code: ", code>>)

\* The rejection of the 'exit' handler.
ExitMessage(proc, code, errData) ==
  Rejection(<<"\"">> \o CommandLine(proc) \o <<"\" failed, error code: ", code,
              ", stderr: ">> \o errData)

\* The 'error' handler rejecting with the error alone.
ErrorMessageWithoutCommand(proc, err) == Rejection(ErrToString(err))

\* The rejection of the 'error' handler.
ErrorMessage(proc, err) ==
  Rejection(<<"\"">> \o CommandLine(proc) \o <<"\" failed, ">> \o ErrToString(err))

SpawnError(cmdPath) == Err(<<"spawn ", cmdPath, " ENOENT">>)

\* spawn(cmdPath, parameters): the process, and what it reads from its argument.
Spawn(tmpPath) ==
  [state |-> "running", cmdPath |-> settings.dotPath,
   parameters |-> parameters(settings.localDotOutputFormat, tmpPath),
   input |-> files[tmpPath].content, exitCode |-> ""]

\* fs.close's callback without an error: writeDotFile spawns the engine.
CloseDone(i) ==
  /\ inv[i].pc = "close"
  /\ openFds' = openFds \ {inv[i].tmpPath}
  /\ inv' = [inv EXCEPT ![i] =
               [@ EXCEPT !.pc = "engine", !.wdf = "pending",
                         !.proc = Spawn(inv[i].tmpPath),
                         !.spawns = Append(@, Spawn(inv[i].tmpPath))]]
  /\ UNCHANGED <<settings, stored, console, fm, files>>

\* dotProcess.stdout.on('data')
StdoutData(i, Chunks) ==
  /\ inv[i].pc = "engine" /\ inv[i].proc.state = "running"
  /\ Len(inv[i].outData) < MaxChunks
  /\ \E data \in Chunks :
       inv' = [inv EXCEPT ![i] = [@ EXCEPT !.outData = Append(@, data)]]
  /\ UNCHANGED <<settings, stored, console, fm, files, openFds>>

\* dotProcess.stderr.on('data')
StderrData(i) ==
  /\ inv[i].pc = "engine" /\ inv[i].proc.state = "running"
  /\ Len(inv[i].errData) < MaxChunks
  /\ \E data \in StderrChunks :
       inv' = [inv EXCEPT ![i] = [@ EXCEPT !.errData = Append(@, data)]]
  /\ UNCHANGED <<settings, stored, console, fm, files, openFds>>

\* An outData array shared by the processes of all invocations.
RenderedFromSharedBuffer(r, imageData) ==
  LET shared == inv[1].outData \o (IF 2 \in DOMAIN inv THEN inv[2].outData ELSE <<>>)
  IN [r EXCEPT !.pc = "done", !.wdf = "resolved", !.cti = "resolved",
               !.ret = "resolved", !.imageData = shared,
               !.outputFormat = settings.localDotOutputFormat,
               !.el = Append(@, renderDotLocallyNode(shared,
                                   settings.localDotOutputFormat,
                                   wordsBeforeBrace(r.source)))]

\* writeDotFile resolved: convertToImage's .then cleans up and resolves,
\* renderDotLocally appends the node, imageProcessor returns.
Rendered(r, imageData) ==
  [r EXCEPT !.pc = "done", !.wdf = "resolved", !.cti = "resolved",
            !.ret = "resolved", !.imageData = imageData,
            !.outputFormat = settings.localDotOutputFormat,
            !.el = Append(@, renderDotLocallyNode(imageData,
                                settings.localDotOutputFormat,
                                wordsBeforeBrace(r.source)))]

\* writeDotFile rejected: convertToImage's .catch cleans up and rejects,
\* the rejection reaches imageProcessor's catch.
RenderFailed(r, message) ==
  Catch([r EXCEPT !.wdf = "rejected", !.cti = "rejected",
                  !.raised = Append(@, message)],
        convertToImageCatch(message))

\* The 'exit' handler of writeDotFile.
ExitHandler(r, code) ==
  IF code # "0"
    THEN RenderFailed(r, ExitMessage(r.proc, code, r.errData))
    ELSE Rendered(r, r.outData)

\* dotProcess.on('exit') of a process that ran.
ProcExit(i) ==
  /\ inv[i].pc = "engine" /\ inv[i].proc.state = "running"
  /\ \E code \in ExitCodes :
       inv' = [inv EXCEPT ![i] =
                 ExitHandler([@ EXCEPT !.proc.state = "exited",
                                       !.proc.exitCode = code], code)]
  /\ files' = FilesAfterCleanup(inv[i].tmpPath)
  /\ openFds' = FdsAfterCleanup(inv[i].tmpPath)
  /\ UNCHANGED <<settings, stored, console, fm>>

\* dotProcess.on('error'): the process could not be started.
ProcError(i) ==
  /\ inv[i].pc = "engine" /\ inv[i].proc.state = "running"
  /\ inv[i].outData = <<>> /\ inv[i].errData = <<>>
  /\ inv' = [inv EXCEPT ![i] =
               RenderFailed([@ EXCEPT !.proc.state = "failed"],
                            ErrorMessage(@.proc, SpawnError(@.proc.cmdPath)))]
  /\ files' = FilesAfterCleanup(inv[i].tmpPath)
  /\ openFds' = FdsAfterCleanup(inv[i].tmpPath)
  /\ UNCHANGED <<settings, stored, console, fm>>

\* An 'exit' event after the 'error' event: the handler rejects a promise
\* that is settled already, which changes nothing.
ExitAfterError(i) ==
  /\ inv[i].proc.state = "failed"
  /\ inv' = [inv EXCEPT ![i] = [@ EXCEPT !.proc.state = "failedExited",
                                         !.proc.exitCode = "null"]]
  /\ UNCHANGED <<settings, stored, console, fm, files, openFds>>

\* dotProcess.stdout.on('data') once 'exit' has been handled: Node emits
\* 'exit' when the process ends, its streams possibly still open, and the
\* handler pushes to an array the promise was resolved without.
StdoutDataLate(i, Chunks) ==
  /\ inv[i].proc.state = "exited"
  /\ Len(inv[i].outData) < MaxChunks
  /\ \E data \in Chunks :
       inv' = [inv EXCEPT ![i] = [@ EXCEPT !.outData = Append(@, data)]]
  /\ UNCHANGED <<settings, stored, console, fm, files, openFds>>

\* dotProcess.stderr.on('data') once 'exit' has been handled.
StderrDataLate(i) ==
  /\ inv[i].proc.state = "exited"
  /\ Len(inv[i].errData) < MaxChunks
  /\ \E data \in StderrChunks :
       inv' = [inv EXCEPT ![i] = [@ EXCEPT !.errData = Append(@, data)]]
  /\ UNCHANGED <<settings, stored, console, fm, files, openFds>>

(***************************************************************************)
(* fetchModels (src/src/main.ts)                                           *)
(***************************************************************************)

\* const defaultModels = ["gpt-4o-mini", "gpt-4", "gpt-3.5-turbo"];
defaultModels == <<"gpt-4o-mini", "gpt-4", "gpt-3.5-turbo">>

\* The model names of this model, in the order of their UTF-16 code units,
\* which is the order of Array.prototype.sort() without a comparator.
CodeUnitOrder ==
  <<"", "chatgpt-4o-latest", "dall-e-3", "gpt-3.5-turbo", "gpt-4", "gpt-4o",
    "gpt-4o-mini", "o1">>

CodeUnitRank(id) ==
  CHOOSE k \in 1..Len(CodeUnitOrder) : CodeUnitOrder[k] = id

\* model.id.includes('gpt')
includesGpt(id) ==
  id \in {"chatgpt-4o-latest", "gpt-3.5-turbo", "gpt-4", "gpt-4o", "gpt-4o-mini"}

RECURSIVE FirstOccurrences(_, _)
\* a.filter((v, i, a) => a.indexOf(v) === i)
FirstOccurrences(a, acc) ==
  IF a = <<>> THEN acc
  ELSE FirstOccurrences(Tail(a),
         IF Head(a) \in Range(acc) THEN acc ELSE Append(acc, Head(a)))

RECURSIVE InsertSorted(_, _)
InsertSorted(sorted, id) ==
  IF sorted = <<>> THEN <<id>>
  ELSE IF CodeUnitRank(id) < CodeUnitRank(Head(sorted)) THEN <<id>> \o sorted
  ELSE <<Head(sorted)>> \o InsertSorted(Tail(sorted), id)

RECURSIVE sort(_)
\* a.sort()
sort(a) == IF a = <<>> THEN <<>> ELSE InsertSorted(sort(Tail(a)), Head(a))

\* [...defaultModels, this.settings.model].filter(...).sort()
fetchModelsDefault(model) ==
  sort(FirstOccurrences(defaultModels \o <<model>>, <<>>))

\* [...fetchedModels, this.settings.model, ...defaultModels].filter(...).sort()
fetchModelsMerged(catalog, model) ==
  sort(FirstOccurrences(SelectSeq(catalog, includesGpt) \o <<model>> \o defaultModels,
                        <<>>))

\* What the service lists, and the catalogs it may return.
CatalogIds == {"gpt-4o", "gpt-4", "dall-e-3", "chatgpt-4o-latest"}
Catalogs == SeqsUpTo(CatalogIds, MaxCatalog)

\* What the fetch of fetchModels settles with: a network failure, a
\* non-success status (its text readable or not), a body that is no JSON, a
\* body without the data array, an entry without an id, or a catalog.
CatalogKinds ==
  {"network", "status", "statusNoText", "badJson", "noData", "noId", "ok"}

CatalogResponses ==
  { [kind |-> k, catalog |-> <<>>] : k \in CatalogKinds \ {"ok"} }
    \cup { [kind |-> "ok", catalog |-> c] : c \in Catalogs }

\* A catch block that lets the error go to the caller.
fetchModelsCatchRethrow(model) == [threw |-> TRUE, result |-> <<>>]

\* fetchModels' catch block.
fetchModelsCatch(model) == [threw |-> FALSE, result |-> fetchModelsDefault(model)]

\* fetchModels from the settled fetch on.
fetchModelsAfterFetch(resp, model) ==
  CASE resp.kind = "ok" ->
         [threw |-> FALSE, result |-> fetchModelsMerged(resp.catalog, model)]
    [] resp.kind = "status" ->
         [threw |-> FALSE, result |-> fetchModelsDefault(model)]
    [] OTHER -> fetchModelsCatch(model)

\* A call of fetchModels, up to its fetch.
FetchModelsStart ==
  /\ fm.pc = "idle"
  /\ LET apiKey == settings.apiKey
     IN fm' = IF apiKey = ""
                THEN [fm EXCEPT !.pc = "done", !.apiKey = apiKey,
                                !.model = settings.model,
                                !.result = fetchModelsDefault(settings.model)]
                ELSE [fm EXCEPT !.pc = "fetch", !.apiKey = apiKey,
                                !.requests = Append(@, <<"Bearer ", apiKey>>)]
  /\ UNCHANGED <<settings, stored, console, files, openFds, inv>>

\* The fetch settles and fetchModels returns.
FetchModelsSettles ==
  /\ fm.pc = "fetch"
  /\ \E resp \in CatalogResponses :
       LET out == fetchModelsAfterFetch(resp, settings.model)
       IN fm' = [fm EXCEPT !.pc = "done", !.response = resp.kind,
                           !.model = settings.model,
                           !.threw = out.threw, !.result = out.result]
  /\ UNCHANGED <<settings, stored, console, files, openFds, inv>>

\* The caller has taken the list; fetchModels may be called again.
FetchModelsReturned ==
  /\ fm.pc = "done"
  /\ fm' = IdleFetch
  /\ UNCHANGED <<settings, stored, console, files, openFds, inv>>

(***************************************************************************)
(* The settings tab                                                        *)
(***************************************************************************)

\* The 'Processing mode' dropdown's onChange.
SetProcessingMode ==
  /\ \E value \in {"dot", "svg"} :
       /\ value # settings.processingMode
       /\ settings' = [settings EXCEPT !.processingMode = value]
  /\ saveSettings
  /\ UNCHANGED <<console, fm, files, openFds, inv>>

\* The 'Local Dot Output Format' dropdown's onChange.
SetLocalDotOutputFormat ==
  /\ \E value \in {"png", "svg"} :
       /\ value # settings.localDotOutputFormat
       /\ settings' = [settings EXCEPT !.localDotOutputFormat = value]
  /\ saveSettings
  /\ UNCHANGED <<console, fm, files, openFds, inv>>

\* The 'OpenAI API Key' text field's onChange.
SetApiKey ==
  /\ \E value \in {"", "sk-test"} :
       /\ value # settings.apiKey
       /\ settings' = [settings EXCEPT !.apiKey = value]
  /\ saveSettings
  /\ UNCHANGED <<console, fm, files, openFds, inv>>

\* The names typed into the 'OpenAI Model' text field.
ModelNames == {"", "gpt-4o-mini", "gpt-4", "o1"}

\* The 'OpenAI Model' text field's onChange.
SetModel ==
  /\ \E value \in ModelNames :
       /\ value # settings.model
       /\ settings' = [settings EXCEPT !.model = value]
  /\ saveSettings
  /\ UNCHANGED <<console, fm, files, openFds, inv>>

\* The plugin is loaded again: onload runs loadSettings on the data file.
LoadSettings ==
  /\ settings' = loadSettings(stored)
  /\ stored' = StoredAfterLoad(stored)
  /\ console' = WarnedAfterLoad(console, stored)
  /\ UNCHANGED <<fm, files, openFds, inv>>

\* The data file is replaced from outside: a sync, an edit by hand, the file
\* of another version.
DataFileChanged ==
  /\ \E d \in StoredData : d # stored /\ stored' = d
  /\ UNCHANGED <<settings, console, fm, files, openFds, inv>>

(***************************************************************************)
(* Specifications                                                          *)
(***************************************************************************)

Step(i, Sources, Resps, Chunks) ==
  \/ Invoke(i, Sources)
  \/ FetchSettles(i, Resps)
  \/ TmpFileCreated(i)
  \/ TmpFileFailed(i)
  \/ WriteDone(i)
  \/ WriteFailed(i)
  \/ CloseAfterWriteError(i)
  \/ CloseFailed(i)
  \/ CloseDone(i)
  \/ StdoutData(i, Chunks)
  \/ StderrData(i)
  \/ ProcExit(i)
  \/ ProcError(i)
  \/ ExitAfterError(i)

\* A few block texts against every reply of the service.
Next ==
  \/ \E i \in Invs : Step(i, SampleSources, Responses, StdoutChunks)
  \/ SetProcessingMode
  \/ SetLocalDotOutputFormat
  \/ SetApiKey

Spec == Init /\ [][Next]_vars

\* Every block text against a few replies and an engine that writes one kind
\* of chunk.
NextText ==
  \/ \E i \in Invs : Step(i, AllSources, SampleResponses, {"<svg>"})
  \/ SetProcessingMode
  \/ SetLocalDotOutputFormat

SpecText == Init /\ [][NextText]_vars

\* The data files that differ in the credential and the model only.
ModelStored ==
  {d \in StoredData : /\ d.processingMode = NotStored /\ d.dotPath = NotStored
                      /\ d.localDotOutputFormat = NotStored}

InitModels == InitWith(ModelStored, Invs, Paths)

\* Calls of fetchModels while the credential and the model are edited.
NextModels ==
  \/ FetchModelsStart
  \/ FetchModelsSettles
  \/ FetchModelsReturned
  \/ SetApiKey
  \/ SetModel

SpecModels == InitModels /\ [][NextModels]_vars

\* Two blocks of one document, and the names tmp.file may give them.
InvPair == {1, 2}
PathPair == {"/tmp/tmp-1.tmp", "/tmp/tmp-2.tmp"}

\* The data files of a configured plugin, of either mode and format.
PairStored ==
  {d \in StoredData : /\ d.processingMode \in {"dot", "svg"}
                      /\ d.localDotOutputFormat \in {"png", "svg"}
                      /\ d.apiKey = "sk-test" /\ d.model = NotStored}

\* The replies to the two blocks: a code under the primary key of either
\* format or under the legacy key, or a message.
PairResponses ==
  SampleResponses \cup
    { [kind |-> "object", body |-> [EmptyBody EXCEPT !["dot"] = Str(TextOf("dot"))]] }

InitPair == InitWith(PairStored, InvPair, PathPair)

\* The host processes the two blocks concurrently.
NextPair == \E i \in InvPair : Step(i, SampleSources, PairResponses, {"<svg>"})

SpecPair == InitPair /\ [][NextPair]_vars

\* The data files of a plugin configured for the dot mode.
StreamStored == {d \in PairStored : d.processingMode = "dot"}

InitStreams == InitWith(StreamStored, Invs, Paths)

\* The pipeline with an engine whose streams may deliver after 'exit'.
NextStreams ==
  \E i \in Invs :
    \/ Step(i, SampleSources, SampleResponses, StdoutChunks)
    \/ StdoutDataLate(i, StdoutChunks)
    \/ StderrDataLate(i)

SpecStreams == InitStreams /\ [][NextStreams]_vars

InitSettings == InitWith(StoredData, Invs, Paths)

\* Loads and setting changes over every data file.
NextSettings ==
  \/ LoadSettings
  \/ DataFileChanged
  \/ SetProcessingMode
  \/ SetLocalDotOutputFormat
  \/ SetApiKey
  \/ SetModel

SpecSettings == InitSettings /\ [][NextSettings]_vars

\* The mode is 'dot' | 'svg' for the compiler only: the settings objects
\* imageProcessor may find on the plugin, whoever wrote them.
AnySettings ==
  { [DEFAULT_SETTINGS EXCEPT !.processingMode = m, !.apiKey = k] :
      m \in {"dot", "svg", "local-dot", ""}, k \in {"", "sk-test"} }

InitDispatch ==
  /\ settings \in AnySettings
  /\ stored = settings
  /\ console = {}
  /\ fm = IdleFetch
  /\ files = [p \in Paths |-> NoFile]
  /\ openFds = {}
  /\ inv = [i \in Invs |-> IdleInv]

\* The pipeline under each of these settings objects.
NextDispatch == \E i \in Invs : Step(i, SampleSources, SampleResponses, StdoutChunks)

SpecDispatch == InitDispatch /\ [][NextDispatch]_vars


(***************************************************************************)
(* Properties                                                              *)
(***************************************************************************)

IsErrorNode(n) ==
  n.tag = "pre" /\ <<"graphviz-error">> \in Range(ClassList(n.class))

IsRenderedNode(n) == n.tag \in {"img", "div"} /\ ~IsErrorNode(n)

\* C1: whatever failure is raised in an invocation (generation, dispatch,
\* scratch file, engine), the promise imageProcessor returned resolves,
\* nothing is thrown past it, and an error node with the marker class
\* 'graphviz-error' and the failure's message is attached to the container.
C1_EveryFailureShown ==
  \A i \in Invs :
    inv[i].raised # <<>> =>
      /\ inv[i].ret = "resolved"
      /\ inv[i].uncaught = <<>>
      /\ \E k \in 1..Len(inv[i].el) :
           /\ IsErrorNode(inv[i].el[k])
           /\ inv[i].el[k].text = inv[i].raised[1].message

\* C2: a completed invocation has appended exactly one child, a rendered node
\* or an error node; an invocation that has not completed has appended
\* nothing, so nothing is appended while the generation call or the engine
\* is still outstanding.
C2_ExactlyOneChild ==
  \A i \in Invs :
    /\ inv[i].ret = "resolved" =>
         /\ Len(inv[i].el) = 1
         /\ IsRenderedNode(inv[i].el[1]) # IsErrorNode(inv[i].el[1])
         /\ IsErrorNode(inv[i].el[1]) = (inv[i].caught # <<>>)
    /\ inv[i].ret # "resolved" => inv[i].el = <<>>
    /\ inv[i].el # <<>> =>
         /\ inv[i].requests # <<>> => inv[i].response.kind # "none"
         /\ inv[i].proc.state # "running"

\* A dot-mode invocation that went through the engine and appended an image.
C2_Witness ==
  \E i \in Invs :
    /\ inv[i].ret = "resolved" /\ inv[i].proc.state = "exited"
    /\ Len(inv[i].el) = 1 /\ inv[i].el[1].tag = "img"

\* C3: an invocation of either mode that finds no credential fails with the
\* configuration error and has issued no fetch, allocated no scratch file and
\* spawned no engine.
C3_NoCredentialNoCall ==
  \A i \in Invs :
    (inv[i].pc # "idle" /\ inv[i].processingMode \in {"dot", "svg"}
       /\ inv[i].apiKey = "") =>
      /\ inv[i].requests = <<>>
      /\ inv[i].allocs = <<>> /\ inv[i].spawns = <<>>
      /\ \A p \in Paths : ~files[p].exists
      /\ inv[i].pc = "done"
      /\ Len(inv[i].el) = 1 /\ IsErrorNode(inv[i].el[1])
      /\ inv[i].el[1].text = <<"OpenAI API Key is not configured in settings.">>

\* An svg-mode invocation that found no credential.
C3_Witness ==
  \E i \in Invs :
    /\ inv[i].pc = "done" /\ inv[i].processingMode = "svg"
    /\ inv[i].apiKey = "" /\ inv[i].caught # <<>>

\* C4: once the promise of convertToImage has settled, on whichever path,
\* no path it allocated exists any more and its descriptor is closed.
C4_ScratchFileRemoved ==
  \A i \in Invs :
    inv[i].cti \in {"resolved", "rejected"} =>
      \A k \in 1..Len(inv[i].allocs) :
        inv[i].allocs[k] # "" =>
          /\ ~files[inv[i].allocs[k]].exists
          /\ inv[i].allocs[k] \notin openFds

\* convertToImage rejected after the engine exited with code 1 on a file it
\* had allocated.
C4_Witness ==
  \E i \in Invs :
    /\ inv[i].cti = "rejected" /\ inv[i].proc.exitCode = "1"
    /\ inv[i].tmpPath \in Paths


PrimaryKey(r) == IF r.processingMode = "svg" THEN "svg_code" ELSE "dot_code"
LegacyKey(r) == IF r.processingMode = "svg" THEN "svg" ELSE "dot"

\* The invocation has received a JSON object from the service.
GotObject(r) == r.response.kind = "object"

\* The object holds an error message and no code under the mode's two keys.
ErrorOnly(r) ==
  /\ GotObject(r)
  /\ r.response.body["error_message"].def
  /\ ~r.response.body[PrimaryKey(r)].def
  /\ ~r.response.body[LegacyKey(r)].def

ShowsExactly(r, text) ==
  /\ r.pc = "done" /\ Len(r.el) = 1
  /\ IsErrorNode(r.el[1]) /\ r.el[1].text = text
  /\ r.allocs = <<>> /\ r.spawns = <<>>

\* C5 as claimed: a response holding only an error-message field ends, in
\* both modes, with an error node whose text is that message, and with no
\* scratch file and no engine process.
C5_ErrorMessageShown ==
  \A i \in Invs :
    ErrorOnly(inv[i]) =>
      ShowsExactly(inv[i], inv[i].response.body["error_message"].str)

\* C5 amended: a response holding only a non-empty error-message field ends,
\* in both modes, with an error node whose text is that message, and with no
\* scratch file and no engine process.
C5_NonEmptyErrorMessageShown ==
  \A i \in Invs :
    (ErrorOnly(inv[i]) /\ inv[i].response.body["error_message"].str # <<>>) =>
      ShowsExactly(inv[i], inv[i].response.body["error_message"].str)

\* A dot-mode invocation that showed the service's own message.
C5_Witness ==
  \E i \in Invs :
    /\ inv[i].processingMode = "dot" /\ ErrorOnly(inv[i])
    /\ inv[i].pc = "done"
    /\ inv[i].el[1].text = <<"cannot draw this">>

\* The text is the validation failure of callOpenAI.
IsMissingFieldsText(text) ==
  /\ text # <<>>
  /\ text[1] = "LLM response is missing any of the expected fields ("

\* The keys listed after "Received keys: [".
ListedKeys(text) ==
  LET at == CHOOSE k \in 1..Len(text) : text[k] = "). Received keys: ["
  IN Range(SubSeq(text, at + 1, Len(text) - 1)) \ {", "}

\* The text names the three keys checked for the mode and the keys received.
NamesKeys(r, text) ==
  /\ IsMissingFieldsText(text)
  /\ IsInfix(<<"'", PrimaryKey(r), "'">>, text)
  /\ IsInfix(<<"'", LegacyKey(r), "'">>, text)
  /\ IsInfix(<<"'", "error_message", "'">>, text)
  /\ ListedKeys(text) =
       IF \E k \in Keys : r.response.body[k].def
         THEN {k \in Keys : r.response.body[k].def} ELSE {"none"}

RejectedByValidation(r) ==
  /\ r.pc = "done" /\ Len(r.el) = 1 /\ IsErrorNode(r.el[1])
  /\ NamesKeys(r, r.el[1].text)

CheckedKeys(r) == {PrimaryKey(r), LegacyKey(r), "error_message"}

\* C6 as claimed: a response object with none of the mode's two code keys and
\* no error-message key is rejected with a message naming the checked keys
\* and the received keys, and a response object is accepted whenever one of
\* the three keys is present.
C6_AcceptedWhenPresent ==
  \A i \in Invs :
    GotObject(inv[i]) =>
      IF \E k \in CheckedKeys(inv[i]) : inv[i].response.body[k].def
        THEN ~(inv[i].el # <<>> /\ IsMissingFieldsText(inv[i].el[1].text))
        ELSE RejectedByValidation(inv[i])

\* C6 amended: a response object none of whose three checked keys holds a
\* non-empty value is rejected with a message naming the checked keys and
\* the received keys, and a response object is accepted whenever one of the
\* three keys holds a non-empty value.
C6_AcceptedWhenNonEmpty ==
  \A i \in Invs :
    GotObject(inv[i]) =>
      IF \E k \in CheckedKeys(inv[i]) : Truthy(inv[i].response.body[k])
        THEN ~(inv[i].el # <<>> /\ IsMissingFieldsText(inv[i].el[1].text))
        ELSE RejectedByValidation(inv[i])

\* A dot-mode invocation rejected for a response that held only svg_code.
C6_Witness ==
  \E i \in Invs :
    /\ inv[i].processingMode = "dot" /\ GotObject(inv[i])
    /\ inv[i].response.body["svg_code"].def
    /\ RejectedByValidation(inv[i])
    /\ "svg_code" \in ListedKeys(inv[i].el[1].text)

\* The object holds a non-empty code under one of the mode's keys and no
\* error-message field.
CodeAndNoError(r) ==
  /\ GotObject(r)
  /\ Truthy(r.response.body[PrimaryKey(r)]) \/ Truthy(r.response.body[LegacyKey(r)])
  /\ ~r.response.body["error_message"].def

ShowsRendered(r) ==
  /\ Len(r.el) = 1 /\ IsRenderedNode(r.el[1])
  /\ r.el[1].text = <<>> /\ r.caught = <<>>

\* C7 as claimed: a response with a non-empty code field and no error field
\* ends with a rendered node and no error text.
C7_CodeIsRendered ==
  \A i \in Invs :
    (CodeAndNoError(inv[i]) /\ inv[i].pc = "done") => ShowsRendered(inv[i])

\* C7 amended: a response with a non-empty code field for the mode and no
\* error field ends with a rendered node and no error text in svg mode, and
\* in dot mode when the scratch file was written and the engine exited with
\* code 0; any error shown instead is the rejection of convertToImage.
C7_CodeIsRenderedIfEngineSucceeds ==
  \A i \in Invs :
    (CodeAndNoError(inv[i]) /\ inv[i].pc = "done") =>
      IF inv[i].processingMode = "svg" \/ inv[i].proc.exitCode = "0"
        THEN ShowsRendered(inv[i])
        ELSE inv[i].cti = "rejected" /\ IsErrorNode(inv[i].el[1])

\* An svg-mode invocation that rendered markup found under the legacy key.
C7_Witness ==
  \E i \in Invs :
    /\ inv[i].processingMode = "svg" /\ CodeAndNoError(inv[i])
    /\ ~inv[i].response.body["svg_code"].def
    /\ inv[i].pc = "done" /\ ShowsRendered(inv[i])
    /\ inv[i].el[1].html = <<"<svg>", "legacy", "</svg>">>

\* The command line of the process spawned: executable, format selector,
\* background, stylesheet, scratch file.
InvokedCommand(r) ==
  <<r.proc.cmdPath, " ", "-T", r.proc.parameters[1][2], " ",
    "-Gbgcolor=transparent", " ", "-Gstylesheet=obs-gviz.css", " ", r.tmpPath>>

C9_SpawnFailureReported ==
  \A i \in Invs :
    inv[i].proc.state \in {"failed", "failedExited"} =>
      /\ inv[i].wdf = "rejected" /\ inv[i].cti = "rejected"
      /\ inv[i].pc = "done"
      /\ Len(inv[i].el) = 1 /\ IsErrorNode(inv[i].el[1])
      /\ IsInfix(InvokedCommand(inv[i]), inv[i].el[1].text)
      /\ \A t \in Range(inv[i].el[1].text) :
           t \notin ExitCodes /\ t # "\" failed, error code: "
      /\ ~files[inv[i].tmpPath].exists

\* The 'error' event was followed by an 'exit' event.
C9_Witness ==
  \E i \in Invs :
    /\ inv[i].proc.state = "failedExited"
    /\ Len(inv[i].el) = 1 /\ inv[i].tmpPath \in Paths

\* The style tokens as claimed: the words before the first brace, none when
\* the text has no brace.
ClaimedTokens(source) ==
  IF "{" \in Range(source)
    THEN SelectSeq(SplitWs(SplitBrace(source)), LAMBDA w : w # <<>>)
    ELSE <<>>

\* C10: the class list of the node rendered for a block is the node's own
\* class followed by the whitespace-separated words of the text before the
\* first '{', and by nothing when the text has no '{' or nothing before it.
C10_StyleTokens ==
  \A i \in Invs :
    (inv[i].el # <<>> /\ IsRenderedNode(inv[i].el[1])) =>
      Tail(ClassList(inv[i].el[1].class)) = Dedup(ClaimedTokens(inv[i].source), <<>>)

\* The calls of fetchModels that returned the built-in list.
ReturnedDefaults ==
  fm.pc = "done" /\ (fm.apiKey = "" \/ fm.response # "ok")

IsSortedNoDuplicates(list) ==
  \A a, b \in 1..Len(list) :
    a < b => CodeUnitRank(list[a]) < CodeUnitRank(list[b])

\* C11: fetchModels never raises to its caller; with no credential it issues
\* no request, and with no credential, a network failure, a non-success
\* status or a malformed catalog body it returns the three built-in names
\* and the model configured when it returns, each once, in sorted order.
C11_FetchModelsDegrades ==
  /\ ~fm.threw
  /\ fm.apiKey = "" => fm.requests = <<>>
  /\ ReturnedDefaults =>
       /\ Range(fm.result) =
            {"gpt-4o-mini", "gpt-4", "gpt-3.5-turbo"} \cup {fm.model}
       /\ IsSortedNoDuplicates(fm.result)

\* A catalog body that was no JSON, with a model typed by hand configured.
C11_Witness ==
  /\ fm.pc = "done" /\ fm.response = "badJson" /\ fm.model = "o1"
  /\ fm.result = <<"gpt-3.5-turbo", "gpt-4", "gpt-4o-mini", "o1">>

\* C12: an invocation that finds a mode other than 'dot' and 'svg' ends with
\* one error node saying 'Unknown processing mode: ' and the mode, and has
\* issued no request, allocated no scratch file and spawned no engine.
C12_UnknownModeRejected ==
  \A i \in Invs :
    (inv[i].pc # "idle" /\ inv[i].processingMode \notin {"dot", "svg"}) =>
      /\ inv[i].pc = "done" /\ inv[i].ret = "resolved"
      /\ Len(inv[i].el) = 1 /\ IsErrorNode(inv[i].el[1])
      /\ inv[i].el[1].text = <<"Unknown processing mode: ", inv[i].processingMode>>
      /\ inv[i].requests = <<>>
      /\ inv[i].allocs = <<>> /\ inv[i].spawns = <<>>
      /\ \A p \in Paths : ~files[p].exists

\* An invocation under the mode of an older version, with a credential set.
C12_Witness ==
  \E i \in Invs :
    /\ inv[i].pc = "done" /\ inv[i].processingMode = "local-dot"
    /\ settings.apiKey = "sk-test" /\ Len(inv[i].el) = 1

\* The stored mode is one loadSettings replaces.
StoredModeInvalid == stored.processingMode \notin {NotStored, "dot", "svg"}

\* C13: the mode of the settings is 'dot' or 'svg' after the first load and
\* after any sequence of loads, changes of the data file and changes in the
\* settings tab; a load that finds another mode stored takes 'dot' and saves
\* the settings it ends with, a load that finds a valid mode keeps it and
\* saves nothing.
C13_ModeAlwaysValid ==
  /\ [](settings.processingMode \in {"dot", "svg"})
  /\ [][LoadSettings =>
          IF StoredModeInvalid
            THEN /\ settings'.processingMode = "dot"
                 /\ stored' = settings'
            ELSE /\ stored' = stored
                 /\ settings'.processingMode =
                      IF stored.processingMode = NotStored
                        THEN "dot" ELSE stored.processingMode]_vars

\* Two loads have each replaced a mode: the data file was changed between
\* them, and the second load has saved what it ended with.
C13_Witness ==
  /\ console = {"local-dot", ""}
  /\ settings.processingMode = "dot" /\ stored = settings
  /\ settings.model = "o1"

\* The arguments of a process that are not options.
Positional(params) == SelectSeq(params, LAMBDA arg : arg[1] \notin
  {"-T", "-Gbgcolor=transparent", "-Gstylesheet=obs-gviz.css"})

\* The service has answered a dot-mode invocation with a non-empty dot_code.
GotDotCode(r) ==
  /\ r.processingMode = "dot" /\ GotObject(r)
  /\ Truthy(r.response.body["dot_code"])

\* C14: in dot mode, when the service returns dot_code S, the engine is
\* spawned at most once and exactly once when the scratch file was written
\* and closed; its only positional argument is the scratch file's path; the
\* file holds S and its descriptor is closed while the engine runs, and S is
\* what the engine reads; when the engine was asked for png, exits with 0
\* and the format is still png, the container holds exactly one img whose
\* source is the engine's output.
C14_RoundTrip ==
  \A i \in Invs :
    GotDotCode(inv[i]) =>
      LET r == inv[i]
          S == r.response.body["dot_code"].str
      IN /\ Len(r.spawns) <= 1
         /\ (r.proc.state # "none") = (Len(r.spawns) = 1)
         /\ r.pc = "engine" => r.proc.state = "running"
         /\ \A k \in 1..Len(r.spawns) :
              /\ Positional(r.spawns[k].parameters) = << <<r.tmpPath>> >>
              /\ r.spawns[k].input = S
         /\ r.proc.state = "running" =>
              /\ files[r.tmpPath] = [exists |-> TRUE, content |-> S]
              /\ r.tmpPath \notin openFds
         /\ (r.proc.exitCode = "0" /\ r.proc.parameters[1] = <<"-T", "png">>
               /\ r.outputFormat = "png") =>
              /\ Len(r.el) = 1 /\ r.el[1].tag = "img"
              /\ r.el[1].src = r.outData /\ r.el[1].mime = "image/png"

\* The engine has rendered the dot_code of the service as a png.
C14_Witness ==
  \E i \in Invs :
    /\ GotDotCode(inv[i]) /\ inv[i].proc.exitCode = "0"
    /\ inv[i].spawns[1].input = <<"digraph{a->b}">>
    /\ inv[i].el[1].tag = "img" /\ inv[i].el[1].src = <<"<svg>", "</svg>">>

\* C15: an svg-mode invocation allocates no scratch file and spawns no
\* engine whatever the service answers; when the answer holds markup, the
\* one node is a div whose first class is 'graphviz-svg-container' and whose
\* inner HTML is the markup as received.
C15_DirectMarkup ==
  \A i \in Invs :
    (inv[i].processingMode = "svg" /\ inv[i].pc # "idle") =>
      LET r == inv[i]
          body == r.response.body
      IN /\ r.allocs = <<>> /\ r.spawns = <<>>
         /\ r.proc.state = "none" /\ r.cti = "none" /\ r.wdf = "none"
         /\ \A p \in Paths : ~files[p].exists
         /\ r.pc \in {"fetch", "done"}
         /\ (r.pc = "done" /\ GotObject(r)
               /\ (Truthy(body["svg_code"]) \/ Truthy(body["svg"]))) =>
              /\ Len(r.el) = 1 /\ r.el[1].tag = "div"
              /\ Head(ClassList(r.el[1].class)) = <<"graphviz-svg-container">>
              /\ r.el[1].html = IF Truthy(body["svg_code"])
                                  THEN body["svg_code"].str ELSE body["svg"].str

\* An svg-mode invocation has injected the svg_code of the service.
C15_Witness ==
  \E i \in Invs :
    /\ inv[i].processingMode = "svg" /\ inv[i].pc = "done"
    /\ Len(inv[i].el) = 1 /\ inv[i].el[1].tag = "div"
    /\ inv[i].el[1].html = <<"<svg>", "circle", "</svg>">>

\* The invocation holds a scratch file: allocated, not yet cleaned up.
HoldsFile(r) == r.pc \in {"write", "closeAfterWriteError", "close", "engine"}

\* C16: of two concurrent invocations, the scratch files they hold at the
\* same time have different paths; the path passed to an invocation's
\* engine is the one it allocated and not one the other holds; and while an
\* engine runs, its file exists and holds the code of its own invocation,
\* which is what the engine reads, whatever the other invocation cleans up.
C16_OwnScratchFile ==
  \A i, j \in InvPair :
    i # j =>
      /\ (HoldsFile(inv[i]) /\ HoldsFile(inv[j])) => inv[i].tmpPath # inv[j].tmpPath
      /\ inv[i].proc.state = "running" =>
           /\ inv[i].proc.parameters[4] = <<inv[i].tmpPath>>
           /\ inv[i].tmpPath = inv[i].allocs[1]
           /\ HoldsFile(inv[j]) => inv[j].tmpPath # inv[i].tmpPath
           /\ files[inv[i].tmpPath] = [exists |-> TRUE, content |-> inv[i].dotSource]
           /\ inv[i].proc.input = inv[i].dotSource

\* One invocation has finished and cleaned up while the engine of the other,
\* given another code, is still running.
C16_Witness ==
  /\ inv[1].pc = "done" /\ inv[1].proc.state = "exited"
  /\ inv[2].proc.state = "running"
  /\ inv[1].dotSource # inv[2].dotSource
  /\ files[inv[2].tmpPath].exists

\* Two invocations that have come to their end, on the same text under the
\* same mode and credential, given the same reply, the same outcome of the
\* scratch-file calls and the same behaviour of the engine.
SameRun(a, b) ==
  /\ a.pc \in {"done", "hung"} /\ b.pc = a.pc
  /\ a.source = b.source /\ a.processingMode = b.processingMode
  /\ a.apiKey = b.apiKey /\ a.response = b.response
  /\ a.err = b.err
  /\ a.proc.state = b.proc.state /\ a.proc.exitCode = b.proc.exitCode
  /\ a.outData = b.outData /\ a.errData = b.errData

\* The children of the invocation's container, the path of its scratch
\* file replaced wherever a text quotes it.
WithoutPath(r) ==
  [k \in 1..Len(r.el) |->
     [r.el[k] EXCEPT !.text =
        [t \in 1..Len(r.el[k].text) |->
           IF r.el[k].text[t] = r.tmpPath THEN "<scratch file>"
           ELSE r.el[k].text[t]]]]

FailedUnparsed(r) ==
  /\ r.pc = "done" /\ Len(r.el) = 1 /\ IsErrorNode(r.el[1])
  /\ Range(r.steps) \cap {"json", "envelope", "parse", "validate"} = {}
  /\ r.allocs = <<>> /\ r.spawns = <<>>

\* The text holds the status and the body of the response.
CarriesStatusAndBody(text, resp) ==
  /\ ResponseStatus(resp) \in Range(text)
  /\ ResponseText(resp) \in Range(text)

\* C18 as claimed: when the fetch fails or the response has a non-success
\* status, the invocation fails with a message that carries the status and
\* the response body, and the response is never parsed or validated.
C18_TransportErrorCarriesStatus ==
  \A i \in Invs :
    inv[i].response.kind \in {"network", "status", "statusNoText"} =>
      /\ FailedUnparsed(inv[i])
      /\ CarriesStatusAndBody(inv[i].el[1].text, inv[i].response)

\* C18 amended: a response with a non-success status whose text can be read
\* fails the invocation with a message that carries the status, the status
\* text and the response body; when the fetch itself fails, or the text of
\* such a response cannot be read, the message is that of the error raised,
\* which carries neither; in each case the response is never parsed or
\* validated and nothing is rendered.
C18_TransportErrorShown ==
  \A i \in Invs :
    inv[i].response.kind \in {"network", "status", "statusNoText"} =>
      /\ FailedUnparsed(inv[i])
      /\ inv[i].response.kind = "status" =>
           /\ CarriesStatusAndBody(inv[i].el[1].text, inv[i].response)
           /\ inv[i].el[1].text[1] = "OpenAI API request failed: "
           /\ ResponseStatusText(inv[i].response) \in Range(inv[i].el[1].text)
      /\ inv[i].response.kind = "network" =>
           inv[i].el[1].text = <<"Failed to fetch">>
      /\ inv[i].response.kind = "statusNoText" =>
           inv[i].el[1].text = <<"network error">>

\* A dot-mode invocation has shown the status and body of a refused request.
C18_Witness ==
  \E i \in Invs :
    /\ inv[i].response.kind = "status" /\ inv[i].processingMode = "dot"
    /\ inv[i].pc = "done" /\ inv[i].steps = <<"text">>
    /\ "401" \in Range(inv[i].el[1].text)

\* C19: when the envelope of the response lacks choices, message or content,
\* or the content is no JSON, the invocation ends with one error node, the
\* structure error or the parse error quoting the content, and neither the
\* field validation nor any rendering step is reached.
C19_MalformedResponseRejected ==
  \A i \in Invs :
    inv[i].response.kind \in {"noContent", "nullChoice", "badJson"} =>
      LET r == inv[i]
      IN /\ r.pc = "done" /\ Len(r.el) = 1 /\ IsErrorNode(r.el[1])
         /\ "validate" \notin Range(r.steps)
         /\ ~IsMissingFieldsText(r.el[1].text)
         /\ r.allocs = <<>> /\ r.spawns = <<>> /\ r.dotSource = <<>>
         /\ r.response.kind = "noContent" =>
              r.el[1].text = <<"Invalid response structure from OpenAI API.">>
         /\ r.response.kind = "badJson" =>
              /\ r.el[1].text[1] = "Failed to parse LLM response JSON: "
              /\ r.el[1].text[Len(r.el[1].text)] = RawContent(r.response)

\* An svg-mode invocation has shown the parse error of a content that was
\* no JSON.
C19_Witness ==
  \E i \in Invs :
    /\ inv[i].response.kind = "badJson" /\ inv[i].processingMode = "svg"
    /\ inv[i].pc = "done" /\ inv[i].steps = <<"json", "envelope", "parse">>
    /\ "not json" \in Range(inv[i].el[1].text)

\* C20: when the allocation, the write or the close of the scratch file has
\* failed, convertToImage rejects (with a message naming the path for a
\* write or close failure), no engine is spawned, and once it has rejected
\* no file is left and no descriptor open; after a failed write the
\* rejection waits for the close of the descriptor, the file still there.
C20_ScratchFailureRejects ==
  \A i \in Invs :
    inv[i].err # "" =>
      LET r == inv[i]
      IN /\ r.spawns = <<>> /\ r.proc.state = "none"
         /\ IF r.pc = "closeAfterWriteError"
              THEN /\ r.err = "fs.write" /\ r.cti = "pending"
                   /\ files[r.tmpPath].exists
              ELSE /\ r.cti = "rejected" /\ r.pc = "done"
                   /\ Len(r.el) = 1 /\ IsErrorNode(r.el[1])
                   /\ \A p \in Paths : ~files[p].exists /\ p \notin openFds
                   /\ r.err = "fs.write" =>
                        SubSeq(r.el[1].text, 1, 3) = <<"write to ", r.tmpPath, " error ">>
                   /\ r.err = "fs.close" =>
                        SubSeq(r.el[1].text, 1, 3) = <<"close ", r.tmpPath, " error ">>

\* C21: once the engine has exited with code 0, writeDotFile has resolved,
\* and the bytes it resolved with are the chunks the engine wrote to stdout,
\* all of them, in the order they arrived.
C21_AllChunksResolved ==
  \A i \in Invs :
    (inv[i].proc.state = "exited" /\ inv[i].proc.exitCode = "0") =>
      /\ inv[i].wdf = "resolved"
      /\ inv[i].imageData = inv[i].outData

\* writeDotFile resolves in this step.
EngineResolves(i) == inv[i].wdf = "pending" /\ inv'[i].wdf = "resolved"

\* C22: in dot mode, the step in which the engine's bytes are wrapped appends
\* exactly one node whose kind follows the output-format setting alone: with
\* 'svg', a div of class graphviz-svg-container whose inner HTML is the
\* engine's output, its svg element (when it has one) tagged 'graphviz';
\* with any other format, an img whose source is a blob of the engine's
\* bytes with the format's mime type.
C22_NodeKindFollowsFormat ==
  [][\A i \in Invs :
       EngineResolves(i) =>
         LET r == inv'[i]
             format == settings.localDotOutputFormat
         IN /\ inv[i].processingMode = "dot" /\ inv[i].el = <<>>
            /\ Len(r.el) = 1
            /\ IF format = "svg"
                 THEN /\ r.el[1].tag = "div"
                      /\ Head(ClassList(r.el[1].class)) = <<"graphviz-svg-container">>
                      /\ r.el[1].html = inv[i].outData
                      /\ r.el[1].svgClass = HasSvgElement(inv[i].outData)
                      /\ r.el[1].src = <<>>
                 ELSE /\ r.el[1].tag = "img"
                      /\ Head(ClassList(r.el[1].class)) = <<"graphviz">>
                      /\ r.el[1].src = inv[i].outData
                      /\ r.el[1].mime = imageMimeType(format)
                      /\ r.el[1].html = <<>> /\ ~r.el[1].svgClass]_vars

\* A dot-mode invocation whose engine wrote svg markup in two chunks, inlined
\* in a div with its svg element tagged.
C22_Witness ==
  \E i \in Invs :
    /\ inv[i].processingMode = "dot" /\ inv[i].pc = "done"
    /\ inv[i].outputFormat = "svg" /\ inv[i].proc.exitCode = "0"
    /\ Len(inv[i].el) = 1 /\ inv[i].el[1].tag = "div"
    /\ inv[i].el[1].html = <<"<svg>", "</svg>">> /\ inv[i].el[1].svgClass

\* C23: every error raised inside callOpenAI, convertToImage, writeDotFile or
\* renderDotLocally is the one error imageProcessor's catch receives, the
\* same value and no other, and the text of the error node is its message.
C23_ErrorsReachCatch ==
  \A i \in Invs :
    inv[i].raised # <<>> =>
      /\ Len(inv[i].raised) = 1
      /\ inv[i].caught = inv[i].raised
      /\ Len(inv[i].el) = 1
      /\ inv[i].el[1].text = ErrorText(inv[i].raised[1])

\* The steps an invocation has attempted so far.
Attempts(r) == <<r.requests, r.allocs, r.spawns>>

\* C24: an invocation issues at most one request to the service, allocates at
\* most one scratch file and spawns at most one engine process, and once an
\* error has been raised in it, it issues, allocates and spawns nothing more.
C24_SingleAttempt ==
  /\ [](\A i \in Invs :
         /\ Len(inv[i].requests) <= 1
         /\ Len(inv[i].allocs) <= 1
         /\ Len(inv[i].spawns) <= 1)
  /\ [][\A i \in Invs :
          inv[i].raised # <<>> => Attempts(inv'[i]) = Attempts(inv[i])]_vars

\* An invocation that failed at the engine, after one request, one scratch
\* file and one process.
C24_Witness ==
  \E i \in Invs :
    /\ inv[i].pc = "done" /\ inv[i].raised # <<>>
    /\ inv[i].proc.state = "exited" /\ inv[i].proc.exitCode # "0"
    /\ Len(inv[i].requests) = 1 /\ Len(inv[i].allocs) = 1
    /\ Len(inv[i].spawns) = 1

\* The response is an object with a non-empty value under the primary or the
\* legacy key of the invocation's mode.
CarriesCode(r) ==
  /\ GotObject(r)
  /\ Truthy(r.response.body[PrimaryKey(r)]) \/ Truthy(r.response.body[LegacyKey(r)])

\* The value the priority order selects: the primary key's when it is
\* non-empty, the legacy key's otherwise.
PayloadByPriority(r) ==
  IF Truthy(r.response.body[PrimaryKey(r)])
    THEN r.response.body[PrimaryKey(r)].str
    ELSE r.response.body[LegacyKey(r)].str

\* C25: when the response carries a non-empty value under the primary or the
\* legacy key, validation accepts it and the code used is the primary key's
\* value when that is present and non-empty and the legacy key's value
\* otherwise: it is the markup injected in svg mode, and in dot mode the
\* content of the scratch file and the input of the engine.
C25_PriorityOrderedKeys ==
  \A i \in Invs :
    (CarriesCode(inv[i]) /\ inv[i].pc # "fetch") =>
      LET r == inv[i]
          code == PayloadByPriority(r)
      IN /\ \A k \in 1..Len(r.raised) : ~IsMissingFieldsText(r.raised[k].message)
         /\ r.processingMode = "svg" =>
              /\ r.pc = "done" /\ r.raised = <<>>
              /\ Len(r.el) = 1 /\ r.el[1].tag = "div" /\ r.el[1].html = code
         /\ r.processingMode = "dot" =>
              /\ r.dotSource = code /\ Len(r.allocs) = 1
              /\ \A k \in 1..Len(r.spawns) : r.spawns[k].input = code
              /\ r.pc \in {"close", "engine"} => files[r.tmpPath].content = code
              /\ r.proc.exitCode = "0" => (Len(r.el) = 1 /\ IsRenderedNode(r.el[1]))

\* A dot-mode invocation whose response held an empty dot_code and the code
\* under 'dot': the engine read the legacy value and its output is shown.
C25_Witness ==
  \E i \in Invs :
    /\ inv[i].processingMode = "dot" /\ inv[i].pc = "done"
    /\ inv[i].response.body["dot_code"] = Str(<<>>)
    /\ Len(inv[i].spawns) = 1 /\ Len(inv[i].el) = 1
    /\ inv[i].spawns[1].input = <<"graph{legacy}">>
    /\ inv[i].proc.exitCode = "0" /\ IsRenderedNode(inv[i].el[1])

\* The message of the dispatcher's own failure for a response without code.
GenericNoCodeText(mode) ==
  IF mode = "svg"
    THEN <<"LLM failed to generate SVG code (checked keys: svg_code, svg).">>
    ELSE <<"LLM failed to generate DOT code (checked keys: dot_code, dot).">>

\* An svg-mode invocation that finished on an object without a markup field.
NoMarkupField(r) ==
  /\ r.processingMode = "svg" /\ r.pc = "done" /\ GotObject(r)
  /\ ~r.response.body["svg_code"].def /\ ~r.response.body["svg"].def

\* An svg-mode invocation that finished on an object without usable markup.
NoMarkup(r) ==
  /\ r.processingMode = "svg" /\ r.pc = "done" /\ GotObject(r)
  /\ ~Truthy(r.response.body["svg_code"]) /\ ~Truthy(r.response.body["svg"])

\* C26 as claimed: in svg mode, a response with no markup field shows its
\* error message when it has an error-message field, and the dispatcher's
\* generic 'LLM failed to generate SVG code' message when it has none.
C26_GenericFailureShown ==
  \A i \in Invs :
    NoMarkupField(inv[i]) =>
      /\ Len(inv[i].el) = 1 /\ IsErrorNode(inv[i].el[1])
      /\ inv[i].el[1].text =
           IF inv[i].response.body["error_message"].def
             THEN inv[i].response.body["error_message"].str
             ELSE GenericNoCodeText("svg")

\* C26 amended: in svg mode, a response without non-empty markup shows its
\* error message when that is non-empty; otherwise callOpenAI's validation
\* rejects the response and the text shown is its 'LLM response is missing
\* any of the expected fields' message. The dispatcher's generic message is
\* shown by no invocation of either mode.
C26_ValidationFailureShown ==
  \A i \in Invs :
    /\ NoMarkup(inv[i]) =>
         /\ Len(inv[i].el) = 1 /\ IsErrorNode(inv[i].el[1])
         /\ IF Truthy(inv[i].response.body["error_message"])
              THEN inv[i].el[1].text = inv[i].response.body["error_message"].str
              ELSE /\ IsMissingFieldsText(inv[i].el[1].text)
                   /\ inv[i].raised = <<MissingFieldsError("svg", inv[i].response.body)>>
    /\ \A k \in 1..Len(inv[i].el) :
         inv[i].el[k].text \notin {GenericNoCodeText("svg"), GenericNoCodeText("dot")}

\* An svg-mode invocation whose response held neither markup nor an error
\* message, rejected by callOpenAI's validation.
C26_Witness ==
  \E i \in Invs :
    /\ NoMarkupField(inv[i]) /\ ~inv[i].response.body["error_message"].def
    /\ Len(inv[i].el) = 1 /\ IsMissingFieldsText(inv[i].el[1].text)

\* The text from the first brace on; the whole text when it holds no brace.
RestFromBrace(s) == SubSeq(s, Len(SplitBrace(s)) + 1, Len(s))

\* The description the claim has the service receive.
ClaimedDescription(source) ==
  IF "{" \in Range(source) THEN RestFromBrace(source) ELSE source

\* C27: the description in the request to the service is the block text
\* without what precedes its first '{' when the text holds a '{', and the
\* whole block text when it holds none.
C27_DescriptionWithoutTokens ==
  \A i \in Invs :
    \A k \in 1..Len(inv[i].requests) :
      Tail(inv[i].requests[k].content) = ClaimedDescription(inv[i].source)

\* The response is an object with a non-empty code value for the mode and a
\* non-empty error message.
CodeAndError(r) == CarriesCode(r) /\ Truthy(r.response.body["error_message"])

\* C28: when the response holds both a non-empty code value for the mode and
\* a non-empty error message, validation accepts it, the code is what is
\* rendered (svg mode) or written for the engine (dot mode), and the error
\* message is passed to console.warn once and is the text of no node.
C28_CodeBeforeErrorMessage ==
  \A i \in Invs :
    (CodeAndError(inv[i]) /\ inv[i].pc # "fetch") =>
      LET r == inv[i]
          message == r.response.body["error_message"].str
      IN /\ r.warned = << <<"LLM reported an issue: ">> \o message >>
         /\ \A k \in 1..Len(r.raised) :
              /\ ~IsMissingFieldsText(r.raised[k].message)
              /\ r.raised[k].message # message
         /\ \A k \in 1..Len(r.el) : r.el[k].text # message
         /\ r.processingMode = "svg" =>
              /\ r.pc = "done" /\ Len(r.el) = 1 /\ r.el[1].tag = "div"
              /\ r.el[1].html = PayloadByPriority(r)
         /\ r.processingMode = "dot" =>
              /\ r.dotSource = PayloadByPriority(r) /\ Len(r.allocs) = 1
              /\ \A k \in 1..Len(r.spawns) : r.spawns[k].input = PayloadByPriority(r)

\* A dot-mode invocation whose response held dot_code and an error message:
\* the message was logged, the engine read the code and its output is shown.
C28_Witness ==
  \E i \in Invs :
    /\ inv[i].processingMode = "dot" /\ CodeAndError(inv[i]) /\ inv[i].pc = "done"
    /\ inv[i].warned = << <<"LLM reported an issue: ", "cannot draw this">> >>
    /\ Len(inv[i].spawns) = 1 /\ inv[i].spawns[1].input = <<"digraph{a->b}">>
    /\ Len(inv[i].el) = 1 /\ IsRenderedNode(inv[i].el[1])

\* C29: the output format renderDotLocally wraps the engine's bytes with is
\* the format the engine was spawned with, and the mode the invocation
\* dispatches on is the target format of its request to the service,
\* whatever the user changes in the settings meanwhile.
C29_ConfigurationFixedPerInvocation ==
  \A i \in Invs :
    /\ \A k \in 1..Len(inv[i].requests) :
         inv[i].requests[k].targetFormat = inv[i].processingMode
    /\ inv[i].wdf = "resolved" =>
         inv[i].proc.parameters[1] = <<"-T", inv[i].outputFormat>>

\* The invocation waits for an event that is to come: the service's answer,
\* a callback of tmp.file, fs.write or fs.close, or the engine's 'exit' or
\* 'error'.
AwaitsEvent(r) ==
  r.pc \in {"fetch", "tmp", "write", "closeAfterWriteError", "close", "engine"}

\* C30: an invocation that was started either still waits for an event that
\* is to come or has terminated with exactly one node attached, the promises
\* of convertToImage and writeDotFile settled; writeDotFile resolves only
\* when the engine exited with code 0, and convertToImage only when
\* writeDotFile did.
C30_EveryInvocationTerminates ==
  \A i \in Invs :
    LET r == inv[i]
    IN /\ (r.pc # "idle" /\ ~AwaitsEvent(r)) =>
            /\ r.pc = "done" /\ r.ret = "resolved" /\ Len(r.el) = 1
            /\ r.cti # "pending" /\ r.wdf # "pending"
       /\ r.wdf = "resolved" => r.proc.exitCode = "0"
       /\ r.cti = "resolved" => r.wdf = "resolved"
       /\ (r.proc.state = "exited" /\ r.proc.exitCode # "0") => r.wdf = "rejected"
       /\ r.proc.state \in {"failed", "failedExited"} => r.wdf = "rejected"

====
